---- MODULE Spec2Model ----
(***************************************************************************)
(* Caching and pooled-access layer of DIGITAL_COMPANION:                   *)
(*   - PostgreSQLService response cache (services/postgresql_service.py)   *)
(*   - DatabaseWrapper sync-to-async bridge (services/database_wrapper.py) *)
(*   - ContextCache two-tier chunk cache (auth_and_cache.py)               *)
(*   - RAGService answer path (services/rag_service.py)                    *)
(* Specifications: SpecStore, SpecPool, SpecPoolFair (the store and its   *)
(* pool), SpecBridge, SpecRag (the synchronous callers), SpecChunk,       *)
(* SpecFaults, SpecThreads, SpecCrash (the chunk cache).                  *)
(***************************************************************************)
EXTENDS Integers, Sequences, FiniteSets, TLC

VARIABLES
    \* --- relational store and pool (PostgreSQLService) ---
    now,             \* CURRENT_TIMESTAMP of the database server
    response_cache,  \* the response_cache table: a sequence of rows
    pool,            \* PostgreSQLService.pool: NoPool or the pool object (its id)
    created,         \* number of pools asyncpg.create_pool has made (ids 1..created)
    torn,            \* the pools on which Pool.close() has been called
    busy,            \* connections of self.pool held by the service's other operations
    leaked,          \* connections that were checked out and can no longer be released
    pool_loop,       \* the event loop on which self.pool was created
    \* --- one coroutine per caller (locals of the running cache operation) ---
    pc,              \* position of the caller's coroutine
    op,              \* which service method runs
    query,           \* its query argument
    data,            \* its response_data argument
    row,             \* the row fetched by SELECT (its response_data) or "None"
    result,          \* the value returned to the caller
    exc,             \* the exception in flight / raised, or "none"
    outcome,         \* "none", "returned" or "raised"
    calls,           \* number of calls issued so far
    conn,            \* the pool its connection was acquired from, NoPool if it holds none
    shut,            \* the pool whose close() it awaits, NoPool if none
    \* --- history of the store, kept for the properties ---
    lastPut,         \* the upsert that was the last statement executed, if any
    rt,              \* per caller: the upsert its SELECT immediately followed
    puts,            \* per hash: number of upserts executed
    gets,            \* per hash: number of hit UPDATEs executed
    lastWritten,     \* per hash: response_data of the latest upsert executed
    \* --- DatabaseWrapper ---
    loop_running,    \* the thread in which self.loop is running, or "none"
    ctx,             \* per caller thread: the loop running in its context
    path,            \* per caller: where it stands in _run_async
    via,             \* per caller: the branch _run_async took for its call
    \* --- RAGService ---
    rag,             \* per caller: where it stands in generate_response_with_logging
    reply,           \* per caller: the is_cached field of the dict it returned
    \* --- ContextCache ---
    exact_cache,     \* self.exact_cache: hash -> chunk text
    sem_cache,       \* self.sem_cache: sequence of <<embedding, chunk text>>
    exact_file,      \* what exact_cache_path holds
    sem_file,        \* what sem_cache_path holds
    partial,         \* the files opened for writing whose dump is not complete
    load_failed,     \* _load_caches raised: there is no ContextCache object
    \* --- one ContextCache call per thread ---
    gpc,             \* position of the thread in get_chunk / clear_caches
    gop,             \* the method it runs
    arg,             \* the chunk argument
    emb,             \* the embedding computed for it
    ret,             \* the text returned
    kind,            \* how the call was answered: "exact", "semantic", "miss"
    encodes,         \* model.encode invocations made by the call
    ccalls,          \* number of ContextCache calls issued so far
    \* --- history of the chunk cache, kept for the properties ---
    prev,            \* the get_chunk call that returned last
    resolved,        \* the chunks passed to get_chunk since the cache was empty
    acked,           \* the chunks whose insertion returned since the last clear
    failed           \* the chunks whose insertion raised in a save since the last clear

storeVars == <<now, response_cache, pool>>
poolVars == <<created, torn, busy, leaked, pool_loop, conn, shut>>
taskVars == <<pc, op, query, data, row, result, exc, outcome, calls>>
histVars == <<lastPut, rt, puts, gets, lastWritten>>
ragVars == <<rag, reply>>
bridgeVars == <<loop_running, ctx, path, via, ragVars>>
serviceVars == <<storeVars, poolVars, taskVars, histVars, bridgeVars>>
cacheVars == <<exact_cache, sem_cache, exact_file, sem_file>>
frameVars == <<gpc, gop, arg, emb, ret, kind, encodes, ccalls>>
durVars == <<partial, load_failed, acked, failed>>
chunkVars == <<cacheVars, frameVars, prev, resolved, durVars>>
vars == <<serviceVars, chunkVars>>

----------------------------------------------------------------------------
\* Bounds of the model

MaxCalls == 2
MaxTime == 1
MaxChunkCalls == 3
PoolMaxSize == 2

Callers == {"c1", "c2"}
Queries == {"A", "a"}
Payloads == {"p1", "p2"}
Ops == {"get", "put", "batch"}
CacheOps == {"get", "put"}

Threads == {"t1", "t2"}
Chunks == {"A", "B", "C", "D"}

None == "None"

\* self.pool = None
NoPool == 0

----------------------------------------------------------------------------
\* ContextCache: the two-tier chunk cache

\* sem_threshold: float = 0.55, as the fraction SemThresholdNum / SemThresholdDen
SemThresholdNum == 11
SemThresholdDen == 20

\* self.model.encode([chunk])[0]: the embedding model, a fixed function of the
\* text. A and B are near each other, B and C too, A and C are not; D is far
\* from all of them
Embedding(c) ==
    IF c = "A" THEN <<1, 0>>
    ELSE IF c = "B" THEN <<1, 1>>
    ELSE IF c = "C" THEN <<1, 3>>
    ELSE <<0 - 1, 0>>

Dot(u, v) == u[1] * v[1] + u[2] * v[2]

\* sim = np.dot(e, emb) / (np.linalg.norm(e) * np.linalg.norm(emb));
\* sim >= self.sem_threshold, decided on the squares (the threshold is positive)
Similar(e, v) ==
    /\ Dot(e, v) > 0
    /\ SemThresholdDen * SemThresholdDen * Dot(e, v) * Dot(e, v)
          >= SemThresholdNum * SemThresholdNum * Dot(e, e) * Dot(v, v)

\* self._hash(text)
Hash(text) == <<"sha256", text>>

\* (a variant in which the exact index is never consulted)
ExactHitNever(cache, h) == FALSE

\* h in self.exact_cache
ExactHit(cache, h) == h \in DOMAIN cache

\* (a variant in which the scan never finds an entry)
SemLookupNever(cache, v) == None

\* (a variant of the scan that goes through the whole index and returns the
\* last entry at or above the threshold)
SemLookupLast(cache, v) ==
    LET hits == {i \in 1..Len(cache) : Similar(cache[i][1], v)}
    IN  IF hits = {} THEN None
        ELSE cache[CHOOSE i \in hits : \A j \in hits : i >= j][2]

\* (a variant of the scan without the threshold test: any entry is a hit)
SemLookupNoThreshold(cache, v) ==
    IF Len(cache) = 0 THEN None ELSE cache[1][2]

\* for e, txt in self.sem_cache: if sim >= self.sem_threshold: return txt
\* -- the text of the first entry at or above the threshold, or None
SemLookup(cache, v) ==
    LET hits == {i \in 1..Len(cache) : Similar(cache[i][1], v)}
    IN  IF hits = {} THEN None
        ELSE cache[CHOOSE i \in hits : \A j \in hits : i <= j][2]

NoEmb == <<0, 0>>

NoCall == [chunk |-> None, ret |-> None, kind |-> None, encodes |-> 0]

\* ContextCache.__init__ / _load_caches with no cache files on disk
InitContextCache ==
    /\ exact_cache = <<>>
    /\ sem_cache = <<>>
    /\ exact_file = <<>>
    /\ sem_file = <<>>
    /\ gpc = [t \in Threads |-> "idle"]
    /\ gop = [t \in Threads |-> None]
    /\ arg = [t \in Threads |-> None]
    /\ emb = [t \in Threads |-> NoEmb]
    /\ ret = [t \in Threads |-> None]
    /\ kind = [t \in Threads |-> None]
    /\ encodes = [t \in Threads |-> 0]
    /\ ccalls = 0
    /\ prev = NoCall
    /\ resolved = {}
    /\ partial = {}
    /\ load_failed = FALSE
    /\ acked = {}
    /\ failed = {}

\* No other thread is inside a ContextCache method
Alone(t) == \A o \in Threads \ {t} : gpc[o] = "idle"

\* get_chunk: h = self._hash(chunk); if h in self.exact_cache: return
\* self.exact_cache[h]
GetChunk(t) ==
    /\ gpc[t] = "idle"
    /\ ccalls < MaxChunkCalls
    /\ ccalls' = ccalls + 1
    /\ \E c \in Chunks :
        /\ arg' = [arg EXCEPT ![t] = c]
        /\ resolved' = resolved \cup {c}
        /\ IF ExactHit(exact_cache, Hash(c))
           THEN /\ ret' = [ret EXCEPT ![t] = exact_cache[Hash(c)]]
                /\ kind' = [kind EXCEPT ![t] = "exact"]
                /\ gpc' = [gpc EXCEPT ![t] = "returned"]
           ELSE /\ gpc' = [gpc EXCEPT ![t] = "encode"]
                /\ UNCHANGED <<ret, kind>>
    /\ gop' = [gop EXCEPT ![t] = "get_chunk"]
    /\ UNCHANGED <<serviceVars, cacheVars, emb, encodes, prev, durVars>>

\* emb = self.model.encode([chunk], show_progress_bar=False)[0]
Encode(t) ==
    /\ gpc[t] = "encode"
    /\ emb' = [emb EXCEPT ![t] = Embedding(arg[t])]
    /\ encodes' = [encodes EXCEPT ![t] = @ + 1]
    /\ gpc' = [gpc EXCEPT ![t] = "scan"]
    /\ UNCHANGED <<serviceVars, cacheVars, gop, arg, ret, kind, ccalls, prev, resolved,
                   durVars>>

\* The loop over self.sem_cache: a semantic hit returns the stored text
Scan(t) ==
    /\ gpc[t] = "scan"
    /\ LET txt == SemLookup(sem_cache, emb[t])
       IN  IF txt # None
           THEN /\ ret' = [ret EXCEPT ![t] = txt]
                /\ kind' = [kind EXCEPT ![t] = "semantic"]
                /\ gpc' = [gpc EXCEPT ![t] = "returned"]
           ELSE /\ gpc' = [gpc EXCEPT ![t] = "put_exact"]
                /\ UNCHANGED <<ret, kind>>
    /\ UNCHANGED <<serviceVars, cacheVars, gop, arg, emb, encodes, ccalls, prev,
                   resolved, durVars>>

\* (a variant of the dict store that keeps nothing but the new item)
SetItemOnly(cache, h, text) == (h :> text)

\* cache[h] = text on a dict: the item is added, or replaces the one under h
SetItem(cache, h, text) == (h :> text) @@ cache

\* Cache miss: self.exact_cache[h] = chunk
PutExact(t) ==
    /\ gpc[t] = "put_exact"
    /\ exact_cache' = SetItem(exact_cache, Hash(arg[t]), arg[t])
    /\ gpc' = [gpc EXCEPT ![t] = "append_sem"]
    /\ UNCHANGED <<serviceVars, sem_cache, exact_file, sem_file, gop, arg, emb, ret,
                   kind, encodes, ccalls, prev, resolved, durVars>>

\* self.sem_cache.append((emb, chunk))
AppendSem(t) ==
    /\ gpc[t] = "append_sem"
    /\ sem_cache' = Append(sem_cache, <<emb[t], arg[t]>>)
    /\ gpc' = [gpc EXCEPT ![t] = "open_exact"]
    /\ UNCHANGED <<serviceVars, exact_cache, exact_file, sem_file, gop, arg, emb, ret,
                   kind, encodes, ccalls, prev, resolved, durVars>>

\* clear_caches: self.exact_cache.clear(); self.sem_cache.clear()
ClearCaches(t) ==
    /\ gpc[t] = "idle"
    /\ ccalls < MaxChunkCalls
    /\ ccalls' = ccalls + 1
    /\ gop' = [gop EXCEPT ![t] = "clear_caches"]
    /\ exact_cache' = <<>>
    /\ sem_cache' = <<>>
    /\ resolved' = {}
    /\ acked' = {}
    /\ failed' = {}
    /\ prev' = NoCall
    /\ gpc' = [gpc EXCEPT ![t] = "open_exact"]
    /\ UNCHANGED <<serviceVars, exact_file, sem_file, arg, emb, ret, kind, encodes,
                   partial, load_failed>>

\* self._save_exact(): open(self.exact_cache_path, "wb") truncates the file
OpenExact(t) ==
    /\ gpc[t] = "open_exact"
    /\ exact_file' = <<>>
    /\ partial' = partial \cup {"exact"}
    /\ gpc' = [gpc EXCEPT ![t] = "save_exact"]
    /\ UNCHANGED <<serviceVars, exact_cache, sem_cache, sem_file, gop, arg, emb, ret,
                   kind, encodes, ccalls, prev, resolved, load_failed, acked, failed>>

\* self._save_exact(): pickle.dump(self.exact_cache, f), and the file is closed
SaveExact(t) ==
    /\ gpc[t] = "save_exact"
    /\ exact_file' = exact_cache
    /\ partial' = partial \ {"exact"}
    /\ gpc' = [gpc EXCEPT ![t] = "open_sem"]
    /\ UNCHANGED <<serviceVars, exact_cache, sem_cache, sem_file, gop, arg, emb, ret,
                   kind, encodes, ccalls, prev, resolved, load_failed, acked, failed>>

\* self._save_sem(): open(self.sem_cache_path, "wb") truncates the file
OpenSem(t) ==
    /\ gpc[t] = "open_sem"
    /\ sem_file' = <<>>
    /\ partial' = partial \cup {"sem"}
    /\ gpc' = [gpc EXCEPT ![t] = "save_sem"]
    /\ UNCHANGED <<serviceVars, exact_cache, sem_cache, exact_file, gop, arg, emb, ret,
                   kind, encodes, ccalls, prev, resolved, load_failed, acked, failed>>

\* self._save_sem(): pickle.dump(self.sem_cache, f), and the file is closed;
\* get_chunk then returns chunk
SaveSem(t) ==
    /\ gpc[t] = "save_sem"
    /\ sem_file' = sem_cache
    /\ partial' = partial \ {"sem"}
    /\ gpc' = [gpc EXCEPT ![t] = "returned"]
    /\ IF gop[t] = "get_chunk"
       THEN /\ ret' = [ret EXCEPT ![t] = arg[t]]
            /\ kind' = [kind EXCEPT ![t] = "miss"]
            /\ acked' = acked \cup {arg[t]}
       ELSE UNCHANGED <<ret, kind, acked>>
    /\ UNCHANGED <<serviceVars, exact_cache, sem_cache, exact_file, gop, arg, emb,
                   encodes, ccalls, prev, resolved, load_failed, failed>>

\* The caller goes on with the returned text; the call's locals go away
ChunkReturned(t) ==
    /\ gpc[t] = "returned"
    /\ prev' = IF gop[t] = "get_chunk"
               THEN [chunk |-> arg[t], ret |-> ret[t], kind |-> kind[t],
                     encodes |-> encodes[t]]
               ELSE prev
    /\ gpc' = [gpc EXCEPT ![t] = "idle"]
    /\ gop' = [gop EXCEPT ![t] = None]
    /\ arg' = [arg EXCEPT ![t] = None]
    /\ emb' = [emb EXCEPT ![t] = NoEmb]
    /\ ret' = [ret EXCEPT ![t] = None]
    /\ kind' = [kind EXCEPT ![t] = None]
    /\ encodes' = [encodes EXCEPT ![t] = 0]
    /\ UNCHANGED <<serviceVars, cacheVars, ccalls, resolved, durVars>>

\* (a variant in which get_chunk catches the error and calls the model again)
AfterEncodeErrorRetry == "encode"

\* Where get_chunk stands after self.model.encode raised: the call is not
\* inside a try block, the exception leaves the method
AfterEncodeError == "raised"

\* emb = self.model.encode(...) raises (the model fails, out of memory)
EncodeFails(t) ==
    /\ gpc[t] = "encode"
    /\ encodes' = [encodes EXCEPT ![t] = @ + 1]
    /\ kind' = [kind EXCEPT ![t] = "encode_failed"]
    /\ gpc' = [gpc EXCEPT ![t] = AfterEncodeError]
    /\ UNCHANGED <<serviceVars, cacheVars, gop, arg, emb, ret, ccalls, prev, resolved,
                   durVars>>

\* _save_exact / _save_sem raises: open() fails and the file stays as it was,
\* or pickle.dump fails and leaves the file it was writing incomplete; neither
\* method nor its caller catches the exception
SaveFails(t) ==
    /\ gpc[t] \in {"open_exact", "save_exact", "open_sem", "save_sem"}
    /\ kind' = [kind EXCEPT ![t] = "save_failed"]
    /\ gpc' = [gpc EXCEPT ![t] = "raised"]
    /\ failed' = IF gop[t] = "get_chunk" THEN failed \cup {arg[t]} ELSE failed
    /\ UNCHANGED <<serviceVars, cacheVars, gop, arg, emb, ret, encodes, ccalls, prev,
                   resolved, partial, load_failed, acked>>

\* The exception reaches the caller; the call's locals go away
ChunkRaised(t) ==
    /\ gpc[t] = "raised"
    /\ prev' = NoCall
    /\ gpc' = [gpc EXCEPT ![t] = "idle"]
    /\ gop' = [gop EXCEPT ![t] = None]
    /\ arg' = [arg EXCEPT ![t] = None]
    /\ emb' = [emb EXCEPT ![t] = NoEmb]
    /\ ret' = [ret EXCEPT ![t] = None]
    /\ kind' = [kind EXCEPT ![t] = None]
    /\ encodes' = [encodes EXCEPT ![t] = 0]
    /\ UNCHANGED <<serviceVars, cacheVars, ccalls, resolved, durVars>>

----------------------------------------------------------------------------
\* The response_cache table and its three statements

\* Column defaults of response_cache (the table's DDL)
DefaultHitCount == 1
TTL == 1
DefaultExpiresAt(t) == t + TTL

\* str.lower() on the model's queries
Lower(s) == IF s = "A" THEN "a" ELSE s

\* hashlib.sha256(...).hexdigest(): a digest, injective on the model's strings
Sha256(s) == <<"sha256", s>>

\* (a variant that hashes the query as typed)
QueryHashAsTyped(q) == Sha256(q)

\* query_hash = hashlib.sha256(query.lower().encode()).hexdigest()
QueryHash(q) == Sha256(Lower(q))

Hashes == {QueryHash(q) : q \in Queries}

Min(S) == CHOOSE x \in S : \A y \in S : x <= y

Matching(table, h) == {i \in 1..Len(table) : table[i].query_hash = h}

\* INSERT ... VALUES ($1, $2, $3, CURRENT_TIMESTAMP, CURRENT_TIMESTAMP):
\* the columns the statement does not name take their defaults
InsertedRow(h, q, d, t) ==
    [query_hash |-> h, query_text |-> q, response_data |-> d,
     created_at |-> t, last_accessed |-> t,
     expires_at |-> DefaultExpiresAt(t), hit_count |-> DefaultHitCount]

\* (a variant that takes hit_count from the proposed row: EXCLUDED.hit_count)
ConflictUpdateExcluded(r, d, t) ==
    [r EXCEPT !.response_data = d, !.hit_count = DefaultHitCount, !.last_accessed = t]

\* ON CONFLICT (query_hash) DO UPDATE SET response_data, hit_count, last_accessed
ConflictUpdate(r, d, t) ==
    [r EXCEPT !.response_data = d, !.hit_count = @ + 1, !.last_accessed = t]

\* The upsert of cache_response, one atomic statement
Upsert(table, h, q, d, t) ==
    IF Matching(table, h) = {}
    THEN Append(table, InsertedRow(h, q, d, t))
    ELSE [i \in 1..Len(table) |->
            IF table[i].query_hash = h THEN ConflictUpdate(table[i], d, t)
            ELSE table[i]]

\* (a variant without the expiry condition: WHERE query_hash = $1)
FetchRowAnyAge(table, h, t) ==
    IF Matching(table, h) = {} THEN None
    ELSE table[Min(Matching(table, h))].response_data

\* SELECT response_data ... WHERE query_hash = $1 AND expires_at > CURRENT_TIMESTAMP
FetchRow(table, h, t) ==
    LET live == {i \in Matching(table, h) : table[i].expires_at > t}
    IN  IF live = {} THEN None ELSE table[Min(live)].response_data

\* UPDATE ... SET hit_count = hit_count + 1, last_accessed = CURRENT_TIMESTAMP
UpdateHit(table, h, t) ==
    [i \in 1..Len(table) |->
        IF table[i].query_hash = h
        THEN [table[i] EXCEPT !.hit_count = @ + 1, !.last_accessed = t]
        ELSE table[i]]

\* (a variant in which cache_response has no except clause)
OnExceptionUncaught(o) == IF o = "get" THEN None ELSE "raise"

\* What each method does with an Exception raised in its body: the value its
\* except clause returns, or "raise" where the method has no try block
OnException(o) ==
    IF o = "get" THEN None
    ELSE IF o = "put" THEN "False"
    ELSE "raise"

----------------------------------------------------------------------------
\* History helpers

NoHash == <<"none", "none">>

NoPut == [hash |-> NoHash, data |-> None, hit_before |-> 0]

HitCount(table, h) ==
    IF Matching(table, h) = {} THEN 0 ELSE table[Min(Matching(table, h))].hit_count

----------------------------------------------------------------------------
\* A coroutine runs when something drives it: the caller's own event loop
\* ("async"), self.loop in run_until_complete ("direct") or the worker
\* thread's asyncio.run ("worker")

Driven(c) == path[c] \in {"async", "direct", "worker"}

\* Event loops: the one of the async callers, DatabaseWrapper's self.loop, the
\* loop asyncio.run makes for caller c's call in the worker thread, and a loop
\* that has been closed
NoLoop == <<"none", "none">>
CallerLoop == <<"caller", "own">>
SelfLoop == <<"wrapper", "self">>
WorkerLoop(c) == <<"worker", c>>
ClosedLoop == <<"closed", "closed">>

\* The loop that drives caller c's coroutine
LoopOf(c) ==
    IF path[c] = "direct" THEN SelfLoop
    ELSE IF path[c] = "worker" THEN WorkerLoop(c)
    ELSE CallerLoop

\* The coroutine ends without having executed a statement: exception e is
\* handled by the method's except clause or leaves the method
Fail(c, e) ==
    /\ exc' = [exc EXCEPT ![c] = e]
    /\ pc' = [pc EXCEPT ![c] = "done"]
    /\ result' = [result EXCEPT ![c] =
                    IF OnException(op[c]) = "raise" THEN None ELSE OnException(op[c])]
    /\ outcome' = [outcome EXCEPT ![c] =
                    IF OnException(op[c]) = "raise" THEN "raised" ELSE "returned"]

\* A caller on a running event loop awaits service method o directly
CallOp(c, o) ==
    /\ UNCHANGED chunkVars
    /\ path[c] = "async"
    /\ pc[c] = "idle"
    /\ calls < MaxCalls
    /\ \E q \in Queries, d \in Payloads :
        /\ op' = [op EXCEPT ![c] = o]
        /\ query' = [query EXCEPT ![c] = IF o = "batch" THEN None ELSE q]
        /\ data' = [data EXCEPT ![c] = IF o = "put" THEN d ELSE None]
        /\ (o # "put" => d = CHOOSE x \in Payloads : TRUE)
        /\ (o = "batch" => q = CHOOSE x \in Queries : TRUE)
    /\ pc' = [pc EXCEPT ![c] = "enter"]
    /\ calls' = calls + 1
    /\ rt' = [rt EXCEPT ![c] =
                IF \A x \in Callers \ {c} : pc[x] \in {"idle", "done"}
                THEN lastPut ELSE NoPut]
    /\ UNCHANGED <<storeVars, poolVars, row, result, exc, outcome, lastPut, puts,
                   gets, lastWritten, bridgeVars>>

\* Any of the service's operations
Call(c) == \E o \in Ops : CallOp(c, o)

\* One of the two cache operations
CacheCall(c) == \E o \in CacheOps : CallOp(c, o)

\* The connections of self.pool that are checked out
CheckedOut == busy + Cardinality({c \in Callers : conn[c] = pool})

\* conn = await self.pool.acquire(): a free connection of the pool, or an
\* exception (no self.pool, a pool that is closing or closed, the server not
\* reachable); with every connection checked out the coroutine waits
AcquireConn(c) ==
    \/ /\ pool # NoPool
       /\ pool \notin torn
       /\ CheckedOut < PoolMaxSize
       /\ conn' = [conn EXCEPT ![c] = pool]
       /\ pc' = [pc EXCEPT ![c] = "stmt"]
       /\ UNCHANGED <<result, exc, outcome>>
    \/ /\ Fail(c, "acquire")
       /\ UNCHANGED conn

\* get_connection: if not self.pool: await self.initialize_pool(); with a pool
\* in place it goes on to acquire
GetConnection(c) ==
    /\ UNCHANGED chunkVars
    /\ Driven(c)
    /\ pc[c] = "enter"
    /\ IF pool = NoPool
       THEN /\ pc' = [pc EXCEPT ![c] = "init_pool"]
            /\ UNCHANGED <<result, exc, outcome>>
            /\ UNCHANGED conn
       ELSE AcquireConn(c)
    /\ UNCHANGED <<storeVars, created, torn, busy, leaked, pool_loop, shut, op, query,
                   data, row,
                   calls, histVars, bridgeVars>>

\* initialize_pool: self.pool = await asyncpg.create_pool(...)
InitializePool(c) ==
    /\ UNCHANGED chunkVars
    /\ Driven(c)
    /\ pc[c] = "init_pool"
    /\ \/ /\ created' = created + 1
          /\ pool' = created + 1
          /\ pool_loop' = LoopOf(c)
          /\ busy' = 0
          /\ pc' = [pc EXCEPT ![c] = "acquire"]
          /\ UNCHANGED <<result, exc, outcome>>
       \/ /\ Fail(c, "pool")
          /\ UNCHANGED <<pool, created, pool_loop, busy>>
    /\ UNCHANGED <<now, response_cache, torn, leaked, conn, shut, op, query, data, row,
                   calls, histVars, bridgeVars>>

\* get_connection after initialize_pool returned: conn = await self.pool.acquire()
Acquire(c) ==
    /\ UNCHANGED chunkVars
    /\ Driven(c)
    /\ pc[c] = "acquire"
    /\ AcquireConn(c)
    /\ UNCHANGED <<storeVars, created, torn, busy, leaked, pool_loop, shut, op, query,
                   data, row,
                   calls, histVars, bridgeVars>>

\* A statement times out (command_timeout): the exception passes through
\* get_connection's finally clause
StatementFails(c) ==
    /\ UNCHANGED chunkVars
    /\ Driven(c)
    /\ pc[c] \in {"stmt", "update"}
    /\ exc' = [exc EXCEPT ![c] = "timeout"]
    /\ pc' = [pc EXCEPT ![c] = "release"]
    /\ UNCHANGED <<storeVars, poolVars, op, query, data, row, result, outcome, calls,
                   histVars, bridgeVars>>

\* get_cached_response: row = await conn.fetchrow(SELECT ...)
GetSelect(c) ==
    /\ UNCHANGED chunkVars
    /\ Driven(c)
    /\ pc[c] = "stmt"
    /\ op[c] = "get"
    /\ LET h == QueryHash(query[c])
           r == FetchRow(response_cache, h, now)
       IN  /\ row' = [row EXCEPT ![c] = r]
           /\ pc' = [pc EXCEPT ![c] = IF r # None THEN "update" ELSE "release"]
           /\ result' = [result EXCEPT ![c] = None]
           /\ rt' = [rt EXCEPT ![c] =
                        IF lastPut.hash = h /\ rt[c] = lastPut THEN lastPut ELSE NoPut]
    /\ lastPut' = NoPut
    /\ UNCHANGED <<storeVars, poolVars, op, query, data, exc, outcome, calls, puts,
                   gets, lastWritten, bridgeVars>>

\* get_cached_response: await conn.execute(UPDATE ...); return row['response_data']
GetUpdate(c) ==
    /\ UNCHANGED chunkVars
    /\ Driven(c)
    /\ pc[c] = "update"
    /\ LET h == QueryHash(query[c])
       IN  /\ response_cache' = UpdateHit(response_cache, h, now)
           /\ gets' = [gets EXCEPT ![h] = @ + 1]
    /\ result' = [result EXCEPT ![c] = row[c]]
    /\ pc' = [pc EXCEPT ![c] = "release"]
    /\ lastPut' = NoPut
    /\ UNCHANGED <<now, pool, poolVars, op, query, data, row, exc, outcome, calls,
                   rt, puts, lastWritten, bridgeVars>>

\* cache_response: await conn.execute(INSERT ... ON CONFLICT ...); return True
PutUpsert(c) ==
    /\ UNCHANGED chunkVars
    /\ Driven(c)
    /\ pc[c] = "stmt"
    /\ op[c] = "put"
    /\ LET h == QueryHash(query[c])
       IN  /\ response_cache' = Upsert(response_cache, h, query[c], data[c], now)
           /\ puts' = [puts EXCEPT ![h] = @ + 1]
           /\ lastWritten' = [lastWritten EXCEPT ![h] = data[c]]
           /\ lastPut' = [hash |-> h, data |-> data[c],
                          hit_before |-> HitCount(response_cache, h)]
    /\ result' = [result EXCEPT ![c] = "True"]
    /\ pc' = [pc EXCEPT ![c] = "release"]
    /\ UNCHANGED <<now, pool, poolVars, op, query, data, row, exc, outcome, calls,
                   rt, gets, bridgeVars>>

\* log_activity_batch: await conn.executemany(INSERT INTO student_activities ...)
BatchInsert(c) ==
    /\ UNCHANGED chunkVars
    /\ Driven(c)
    /\ pc[c] = "stmt"
    /\ op[c] = "batch"
    /\ result' = [result EXCEPT ![c] = "True"]
    /\ pc' = [pc EXCEPT ![c] = "release"]
    /\ UNCHANGED <<storeVars, poolVars, op, query, data, row, exc, outcome, calls,
                   histVars, bridgeVars>>

\* get_connection's finally: await self.pool.release(conn), on what self.pool
\* is now. The pool the connection came from takes it back; any other value
\* of self.pool raises (None has no release, another pool refuses a
\* connection that is not its own) and the connection stays checked out.
\* Then the method returns its value, or its except clause handles the
\* exception in flight
Release(c) ==
    /\ UNCHANGED chunkVars
    /\ Driven(c)
    /\ pc[c] = "release"
    /\ pc' = [pc EXCEPT ![c] = "done"]
    /\ conn' = [conn EXCEPT ![c] = NoPool]
    /\ IF pool = conn[c]
       THEN UNCHANGED <<exc, leaked>>
       ELSE /\ exc' = [exc EXCEPT ![c] = "release"]
            /\ leaked' = leaked + 1
    /\ IF exc'[c] = "none"
       THEN /\ outcome' = [outcome EXCEPT ![c] = "returned"]
            /\ UNCHANGED result
       ELSE /\ result' = [result EXCEPT ![c] =
                    IF OnException(op[c]) = "raise" THEN None ELSE OnException(op[c])]
            /\ outcome' = [outcome EXCEPT ![c] =
                    IF OnException(op[c]) = "raise" THEN "raised" ELSE "returned"]
    /\ UNCHANGED <<storeVars, created, torn, busy, pool_loop, shut, op, query, data, row,
                   calls,
                   histVars, bridgeVars>>

\* The locals of a finished call go away
DropLocals(c) ==
    /\ pc' = [pc EXCEPT ![c] = "idle"]
    /\ op' = [op EXCEPT ![c] = None]
    /\ query' = [query EXCEPT ![c] = None]
    /\ data' = [data EXCEPT ![c] = None]
    /\ row' = [row EXCEPT ![c] = None]
    /\ result' = [result EXCEPT ![c] = None]
    /\ exc' = [exc EXCEPT ![c] = "none"]
    /\ outcome' = [outcome EXCEPT ![c] = "none"]
    /\ rt' = [rt EXCEPT ![c] = NoPut]
    /\ UNCHANGED <<storeVars, poolVars, calls, lastPut, puts, gets, lastWritten>>

\* The awaiting caller takes the result; its locals are dropped
Finish(c) ==
    /\ UNCHANGED chunkVars
    /\ path[c] = "async"
    /\ pc[c] = "done"
    /\ UNCHANGED bridgeVars
    /\ DropLocals(c)

\* Time passes on the database server
Tick ==
    /\ UNCHANGED chunkVars
    /\ now < MaxTime
    /\ now' = now + 1
    /\ lastPut' = NoPut
    /\ UNCHANGED <<response_cache, pool, poolVars, taskVars, rt, puts, gets,
                   lastWritten, bridgeVars>>

----------------------------------------------------------------------------
\* The response cache used through the async interface by callers on one
\* event loop

InitTasks ==
    /\ pc = [c \in Callers |-> "idle"]
    /\ op = [c \in Callers |-> None]
    /\ query = [c \in Callers |-> None]
    /\ data = [c \in Callers |-> None]
    /\ row = [c \in Callers |-> None]
    /\ result = [c \in Callers |-> None]
    /\ exc = [c \in Callers |-> "none"]
    /\ outcome = [c \in Callers |-> "none"]
    /\ calls = 0
    /\ rag = [c \in Callers |-> "idle"]
    /\ reply = [c \in Callers |-> None]

\* A started service with no pool yet: PostgreSQLService.__init__
InitService ==
    /\ now = 0
    /\ pool = NoPool
    /\ created = 0
    /\ torn = {}
    /\ busy = 0
    /\ leaked = 0
    /\ pool_loop = NoLoop
    /\ conn = [c \in Callers |-> NoPool]
    /\ shut = [c \in Callers |-> NoPool]
    /\ lastPut = NoPut
    /\ rt = [c \in Callers |-> NoPut]
    /\ gets = [h \in Hashes |-> 0]

InitEmptyTable ==
    /\ response_cache = <<>>
    /\ puts = [h \in Hashes |-> 0]
    /\ lastWritten = [h \in Hashes |-> None]

\* The table an earlier run left behind: one row, cached at time 0 by
\* cache_response("A", "p1")
InitSeededTable ==
    /\ response_cache = Upsert(<<>>, QueryHash("A"), "A", "p1", 0)
    /\ puts = [h \in Hashes |-> IF h = QueryHash("A") THEN 1 ELSE 0]
    /\ lastWritten = [h \in Hashes |-> IF h = QueryHash("A") THEN "p1" ELSE None]

InitStore ==
    /\ InitService
    /\ InitEmptyTable \/ InitSeededTable
    /\ InitTasks
    /\ loop_running = "none"
    /\ ctx = [c \in Callers |-> "own"]
    /\ path = [c \in Callers |-> "async"]
    /\ via = [c \in Callers |-> "none"]
    /\ InitContextCache

\* The steps of get_cached_response and cache_response
CacheCoroutine(c) ==
    \/ GetConnection(c)
    \/ InitializePool(c)
    \/ Acquire(c)
    \/ StatementFails(c)
    \/ GetSelect(c)
    \/ GetUpdate(c)
    \/ PutUpsert(c)
    \/ Release(c)

Coroutine(c) ==
    \/ CacheCoroutine(c)
    \/ BatchInsert(c)

NextStore ==
    \/ \E c \in Callers : CacheCall(c) \/ CacheCoroutine(c) \/ Finish(c)
    \/ Tick

SpecStore == InitStore /\ [][NextStore]_vars

----------------------------------------------------------------------------
\* The pool over the life of the process: cache operations, the service's
\* other operations (user and activity queries, which hold connections of the
\* same pool) and close()

\* close(): if self.pool: await self.pool.close() -- Pool.close() marks the
\* pool as closing and waits until its connections are released
Close(c) ==
    /\ UNCHANGED chunkVars
    /\ path[c] = "async"
    /\ pc[c] = "idle"
    /\ calls < MaxCalls
    /\ calls' = calls + 1
    /\ op' = [op EXCEPT ![c] = "close"]
    /\ IF pool # NoPool
       THEN /\ torn' = torn \cup {pool}
            /\ shut' = [shut EXCEPT ![c] = pool]
            /\ pc' = [pc EXCEPT ![c] = "closing"]
            /\ UNCHANGED outcome
       ELSE /\ pc' = [pc EXCEPT ![c] = "done"]
            /\ outcome' = [outcome EXCEPT ![c] = "returned"]
            /\ UNCHANGED <<torn, shut>>
    /\ UNCHANGED <<storeVars, created, busy, leaked, pool_loop, conn, query, data, row,
                   result,
                   exc, histVars, bridgeVars>>

\* close(): Pool.close() is through, every connection of that pool having been
\* released; self.pool = None
PoolClosed(c) ==
    /\ UNCHANGED chunkVars
    /\ Driven(c)
    /\ pc[c] = "closing"
    /\ \A o \in Callers : conn[o] # shut[c]
    /\ pool = shut[c] => busy = 0
    /\ pool' = NoPool
    /\ pool_loop' = NoLoop
    /\ busy' = 0
    /\ shut' = [shut EXCEPT ![c] = NoPool]
    /\ pc' = [pc EXCEPT ![c] = "done"]
    /\ outcome' = [outcome EXCEPT ![c] = "returned"]
    /\ UNCHANGED <<now, response_cache, created, torn, leaked, conn, op, query, data,
                   row, result, exc, calls, histVars, bridgeVars>>

\* Another operation of the service takes a connection of self.pool
\* (async with self.get_connection() in the user and activity methods)
OtherAcquire ==
    /\ UNCHANGED chunkVars
    /\ pool # NoPool
    /\ pool \notin torn
    /\ CheckedOut < PoolMaxSize
    /\ busy' = busy + 1
    /\ UNCHANGED <<storeVars, created, torn, leaked, pool_loop, conn, shut, taskVars,
                   histVars,
                   bridgeVars>>

\* and gives it back when its statement is through or has timed out
OtherRelease ==
    /\ UNCHANGED chunkVars
    /\ busy > 0
    /\ busy' = busy - 1
    /\ UNCHANGED <<storeVars, created, torn, leaked, pool_loop, conn, shut, taskVars,
                   histVars,
                   bridgeVars>>

\* A service whose pool an earlier operation created, some of its connections
\* held by other operations
InitServiceInUse ==
    /\ now = 0
    /\ pool = 1
    /\ created = 1
    /\ torn = {}
    /\ busy \in 0..PoolMaxSize
    /\ leaked = 0
    /\ pool_loop = CallerLoop
    /\ conn = [c \in Callers |-> NoPool]
    /\ shut = [c \in Callers |-> NoPool]
    /\ lastPut = NoPut
    /\ rt = [c \in Callers |-> NoPut]
    /\ gets = [h \in Hashes |-> 0]

InitPool ==
    /\ InitService \/ InitServiceInUse
    /\ InitEmptyTable
    /\ InitTasks
    /\ loop_running = "none"
    /\ ctx = [c \in Callers |-> "own"]
    /\ path = [c \in Callers |-> "async"]
    /\ via = [c \in Callers |-> "none"]
    /\ InitContextCache

NextPool ==
    \/ \E c \in Callers :
          Call(c) \/ Coroutine(c) \/ Close(c) \/ PoolClosed(c) \/ Finish(c)
    \/ OtherAcquire
    \/ OtherRelease

SpecPool == InitPool /\ [][NextPool]_vars

\* The event loop keeps running every coroutine that can go on, and a
\* statement of another operation ends or times out (command_timeout), so the
\* connection it holds comes back
SpecPoolFair ==
    /\ SpecPool
    /\ \A c \in Callers : WF_vars(Coroutine(c) \/ PoolClosed(c) \/ Finish(c))
    /\ WF_vars(OtherRelease)

----------------------------------------------------------------------------
\* DatabaseWrapper: the synchronous bridge. Each caller is a thread; ctx[c] is
\* the event loop running in that thread when it calls: "none", "own" (a loop
\* other than self.loop, e.g. the caller is inside asyncio.run) or "self"
\* (self.loop itself, run by the thread that constructed the wrapper)

\* The thread that imported the module and ran database_service = DatabaseWrapper()
Home == "c1"

\* RuntimeError('This event loop is already running') and RuntimeError('Cannot
\* run the event loop while another loop is running'), raised by
\* loop.run_until_complete
SchedulerErrors == {"already_running", "another_loop"}

\* self.loop.is_running(): some thread is running self.loop
IsRunning == loop_running # "none"

\* __init__ and _ensure_loop: self.loop is the constructing thread's current
\* loop (running, if the wrapper was constructed inside it) or a new one
InitBridge ==
    /\ InitService
    /\ InitEmptyTable
    /\ InitTasks
    /\ ctx \in [Callers -> {"none", "own", "self"}]
    /\ \A c \in Callers : ctx[c] = "self" => c = Home
    /\ loop_running = (IF ctx[Home] = "self" THEN Home ELSE "none")
    /\ path = [c \in Callers |-> "idle"]
    /\ via = [c \in Callers |-> "none"]
    /\ InitContextCache

\* A synchronous method builds the coroutine of operation o and calls
\* _run_async, which tests self.loop.is_running()
RunAsyncWith(c, o) ==
    /\ UNCHANGED chunkVars
    /\ path[c] = "idle"
    /\ op' = [op EXCEPT ![c] = o]
    /\ query' = [query EXCEPT ![c] = IF o = "batch" THEN None ELSE "a"]
    /\ data' = [data EXCEPT ![c] = IF o = "put" THEN "p1" ELSE None]
    /\ path' = [path EXCEPT ![c] = IF ~IsRunning THEN "run_until_complete" ELSE "submit"]
    /\ calls' = calls + 1
    /\ UNCHANGED <<storeVars, poolVars, pc, row, result, exc, outcome, histVars,
                   loop_running, ctx, via>>

\* A caller uses the synchronous interface
RunAsync(c) ==
    /\ calls < MaxCalls
    /\ \E o \in Ops : RunAsyncWith(c, o)
    /\ UNCHANGED ragVars

\* return self.loop.run_until_complete(coro): asyncio refuses to run a loop that
\* is running, or to run one in a thread where another loop is running
RunUntilComplete(c) ==
    /\ UNCHANGED chunkVars
    /\ path[c] = "run_until_complete"
    /\ via' = [via EXCEPT ![c] = "direct"]
    /\ IF IsRunning \/ ctx[c] # "none"
       THEN /\ exc' = [exc EXCEPT ![c] =
                        IF IsRunning THEN "already_running" ELSE "another_loop"]
            /\ outcome' = [outcome EXCEPT ![c] = "raised"]
            /\ path' = [path EXCEPT ![c] = "returned"]
            /\ UNCHANGED <<pc, loop_running>>
       ELSE /\ loop_running' = c
            /\ path' = [path EXCEPT ![c] = "direct"]
            /\ pc' = [pc EXCEPT ![c] = "enter"]
            /\ UNCHANGED <<exc, outcome>>
    /\ UNCHANGED <<storeVars, poolVars, op, query, data, row, result, calls, histVars,
                   ctx, ragVars>>

\* executor.submit(asyncio.run, coro): a worker thread runs the coroutine on a
\* loop of its own
SubmitToWorker(c) ==
    /\ UNCHANGED chunkVars
    /\ path[c] = "submit"
    /\ via' = [via EXCEPT ![c] = "worker"]
    /\ path' = [path EXCEPT ![c] = "worker"]
    /\ pc' = [pc EXCEPT ![c] = "enter"]
    /\ UNCHANGED <<storeVars, poolVars, op, query, data, row, result, exc, outcome,
                   calls, histVars, loop_running, ctx, ragVars>>

\* run_until_complete returns the coroutine's result or raises its exception;
\* self.loop stops running
DirectReturn(c) ==
    /\ UNCHANGED chunkVars
    /\ path[c] = "direct"
    /\ pc[c] = "done"
    /\ loop_running' = "none"
    /\ path' = [path EXCEPT ![c] = "returned"]
    /\ UNCHANGED <<storeVars, poolVars, taskVars, histVars, ctx, via, ragVars>>

\* return future.result(): the worker's result, or its exception raised again;
\* asyncio.run has closed the loop it made
WorkerReturn(c) ==
    /\ UNCHANGED chunkVars
    /\ path[c] = "worker"
    /\ pc[c] = "done"
    /\ path' = [path EXCEPT ![c] = "returned"]
    /\ pool_loop' = IF pool_loop = WorkerLoop(c) THEN ClosedLoop ELSE pool_loop
    /\ UNCHANGED <<storeVars, created, torn, busy, leaked, conn, shut, taskVars,
                   histVars, loop_running, ctx, via, ragVars>>

\* The synchronous caller goes on with what _run_async gave it
Returned(c) ==
    /\ UNCHANGED chunkVars
    /\ path[c] = "returned"
    /\ path' = [path EXCEPT ![c] = "idle"]
    /\ via' = [via EXCEPT ![c] = "none"]
    /\ UNCHANGED <<loop_running, ctx, ragVars>>
    /\ DropLocals(c)

NextBridge ==
    \E c \in Callers :
        \/ RunAsync(c)
        \/ RunUntilComplete(c)
        \/ SubmitToWorker(c)
        \/ Coroutine(c)
        \/ DirectReturn(c)
        \/ WorkerReturn(c)
        \/ Returned(c)

SpecBridge == InitBridge /\ [][NextBridge]_vars

----------------------------------------------------------------------------
\* RAGService.generate_response_with_logging, for a user who is not a student
\* (no activity is logged): self.db is the DatabaseWrapper

\* What _run_async gave back is consumed: the call's locals go away
TakeResult(c) ==
    /\ path[c] = "returned"
    /\ path' = [path EXCEPT ![c] = "idle"]
    /\ via' = [via EXCEPT ![c] = "none"]
    /\ UNCHANGED <<loop_running, ctx>>
    /\ DropLocals(c)

\* cached_response = self.db.get_cached_response(query)
RagLookup(c) ==
    /\ rag[c] = "idle"
    /\ calls < MaxCalls
    /\ RunAsyncWith(c, "get")
    /\ rag' = [rag EXCEPT ![c] = "lookup"]
    /\ UNCHANGED reply

\* if cached_response: ... return {..., 'is_cached': True, ...}; an exception
\* raised by the call leaves the method
RagAfterLookup(c) ==
    /\ UNCHANGED chunkVars
    /\ rag[c] = "lookup"
    /\ TakeResult(c)
    /\ IF outcome[c] = "raised"
       THEN /\ rag' = [rag EXCEPT ![c] = "raised"]
            /\ UNCHANGED reply
       ELSE IF result[c] # None
       THEN /\ rag' = [rag EXCEPT ![c] = "returned"]
            /\ reply' = [reply EXCEPT ![c] = "True"]
       ELSE /\ rag' = [rag EXCEPT ![c] = "generate"]
            /\ UNCHANGED reply

\* response_data = chatbot.generate_response(query, context);
\* self.db.cache_response(query, cache_data)
RagGenerate(c) ==
    /\ rag[c] = "generate"
    /\ RunAsyncWith(c, "put")
    /\ rag' = [rag EXCEPT ![c] = "store"]
    /\ UNCHANGED reply

\* return {..., 'is_cached': False, ...}, whatever cache_response returned;
\* an exception raised by the call leaves the method
RagAfterStore(c) ==
    /\ UNCHANGED chunkVars
    /\ rag[c] = "store"
    /\ TakeResult(c)
    /\ IF outcome[c] = "raised"
       THEN /\ rag' = [rag EXCEPT ![c] = "raised"]
            /\ UNCHANGED reply
       ELSE /\ rag' = [rag EXCEPT ![c] = "returned"]
            /\ reply' = [reply EXCEPT ![c] = "False"]

\* The caller of generate_response_with_logging goes on
RagDone(c) ==
    /\ rag[c] \in {"returned", "raised"}
    /\ rag' = [rag EXCEPT ![c] = "idle"]
    /\ reply' = [reply EXCEPT ![c] = None]
    /\ UNCHANGED <<chunkVars, storeVars, poolVars, taskVars, histVars, loop_running,
                   ctx, path, via>>

NextRag ==
    \E c \in Callers :
        \/ RagLookup(c)
        \/ RagAfterLookup(c)
        \/ RagGenerate(c)
        \/ RagAfterStore(c)
        \/ RagDone(c)
        \/ RunUntilComplete(c)
        \/ SubmitToWorker(c)
        \/ CacheCoroutine(c)
        \/ DirectReturn(c)
        \/ WorkerReturn(c)

SpecRag == InitBridge /\ [][NextRag]_vars

----------------------------------------------------------------------------
\* The chunk cache used by one caller at a time

InitChunk ==
    /\ InitContextCache
    /\ InitService
    /\ InitEmptyTable
    /\ InitTasks
    /\ loop_running = "none"
    /\ ctx = [c \in Callers |-> "none"]
    /\ path = [c \in Callers |-> "idle"]
    /\ via = [c \in Callers |-> "none"]

\* The steps of a call that is under way
ChunkStep(t) ==
    \/ Encode(t)
    \/ Scan(t)
    \/ PutExact(t)
    \/ AppendSem(t)
    \/ OpenExact(t)
    \/ SaveExact(t)
    \/ OpenSem(t)
    \/ SaveSem(t)
    \/ ChunkReturned(t)

NextChunk ==
    \E t \in Threads :
        \/ Alone(t) /\ GetChunk(t)
        \/ Alone(t) /\ ClearCaches(t)
        \/ ChunkStep(t)

SpecChunk == InitChunk /\ [][NextChunk]_vars

----------------------------------------------------------------------------
\* The chunk cache used by one caller at a time, with an embedding model and
\* a file system that can fail

NextFaults ==
    \E t \in Threads :
        \/ Alone(t) /\ GetChunk(t)
        \/ Alone(t) /\ ClearCaches(t)
        \/ ChunkStep(t)
        \/ EncodeFails(t)
        \/ SaveFails(t)
        \/ ChunkRaised(t)

SpecFaults == InitChunk /\ [][NextFaults]_vars

----------------------------------------------------------------------------
\* The chunk cache called from several threads at once: the methods take no
\* lock, the threads' steps interleave

NextThreads ==
    \E t \in Threads :
        \/ GetChunk(t)
        \/ ClearCaches(t)
        \/ ChunkStep(t)

SpecThreads == InitChunk /\ [][NextThreads]_vars

----------------------------------------------------------------------------
\* The chunk cache across a crash of the process

\* The process dies and is started again: __init__ runs _load_caches, which
\* sets both indexes empty and unpickles each file that exists; a file whose
\* dump was not complete makes pickle.load raise
LoadCaches ==
    /\ load_failed' = (partial # {})
    /\ exact_cache' = IF partial # {} THEN <<>> ELSE exact_file
    /\ sem_cache' = IF partial # {} THEN <<>> ELSE sem_file
    /\ gpc' = [t \in Threads |-> "idle"]
    /\ gop' = [t \in Threads |-> None]
    /\ arg' = [t \in Threads |-> None]
    /\ emb' = [t \in Threads |-> NoEmb]
    /\ ret' = [t \in Threads |-> None]
    /\ kind' = [t \in Threads |-> None]
    /\ encodes' = [t \in Threads |-> 0]
    /\ prev' = NoCall
    /\ UNCHANGED <<serviceVars, exact_file, sem_file, partial, ccalls, resolved, acked,
                   failed>>

NextCrash ==
    \/ \E t \in Threads :
          \/ ~load_failed /\ Alone(t) /\ GetChunk(t)
          \/ ~load_failed /\ Alone(t) /\ ClearCaches(t)
          \/ ChunkStep(t)
    \/ LoadCaches

SpecCrash == InitChunk /\ [][NextCrash]_vars

----------------------------------------------------------------------------
\* Properties of the response cache (SpecStore)

StoreErrors == {"pool", "acquire", "timeout"}

RowsOf(h) == {response_cache[i] : i \in Matching(response_cache, h)}

\* C1: a successful cache_response(q, p) followed immediately by
\* get_cached_response(q) returns a payload equal to p, and hit_count has grown
\* by at least one over the round trip; rt[c] is the upsert that returned just
\* before caller c's get was issued and was still the last statement executed
\* when its SELECT ran
C1_PutThenGetReturnsPayload ==
    \A c \in Callers :
        (pc[c] = "done" /\ op[c] = "get" /\ exc[c] = "none" /\ rt[c] # NoPut)
            => /\ result[c] = rt[c].data
               /\ HitCount(response_cache, QueryHash(query[c])) >= rt[c].hit_before + 1

\* C2: whatever the interleaving of cache_response calls on one key, the table
\* holds exactly one row for the key once a write was executed, the row carries
\* the payload of a writer (the latest one) and its hit_count counts every write
\* (and every hit UPDATE): no increment is lost
C2_ConcurrentPutsOneRowAllCounted ==
    \A h \in Hashes :
        /\ Cardinality(Matching(response_cache, h)) = (IF puts[h] > 0 THEN 1 ELSE 0)
        /\ \A r \in RowsOf(h) :
              /\ r.hit_count = puts[h] + gets[h]
              /\ r.response_data = lastWritten[h]
              /\ r.response_data \in Payloads

\* Two cache_response calls on the same key with different payloads, both past
\* their statement and neither returned yet
C2_Witness ==
    \E c, o \in Callers :
        /\ c # o
        /\ pc[c] = "release" /\ pc[o] = "release"
        /\ op[c] = "put" /\ op[o] = "put"
        /\ exc[c] = "none" /\ exc[o] = "none"
        /\ QueryHash(query[c]) = QueryHash(query[o])
        /\ data[c] # data[o]
        /\ puts[QueryHash(query[c])] >= 2

Expired(h) ==
    /\ Matching(response_cache, h) # {}
    /\ \A r \in RowsOf(h) : ~(r.expires_at > now)

\* C3: the step in which get_cached_response looks up a row whose expires_at is
\* not in the future ends the lookup with None and leaves the table as it was,
\* and so does the rest of a call whose lookup found no row (the release and
\* the return)
C3_ExpiredGetStep(c) ==
    /\ (/\ pc[c] = "stmt" /\ op[c] = "get" /\ pc'[c] # "stmt" /\ exc'[c] = "none"
        /\ Expired(QueryHash(query[c])))
            => /\ pc'[c] = "release"
               /\ result'[c] = None
               /\ response_cache' = response_cache
    /\ (/\ pc[c] = "release" /\ op[c] = "get" /\ pc'[c] = "done" /\ exc[c] = "none"
        /\ row[c] = None)
            => /\ result'[c] = None
               /\ outcome'[c] = "returned"
               /\ response_cache' = response_cache

C3_ExpiredRowIsAbsentAndUntouched == [][\A c \in Callers : C3_ExpiredGetStep(c)]_vars

\* The only call issued is a get that returned None although the row exists:
\* its SELECT met the expired row
C3_Witness ==
    \E c \in Callers :
        /\ calls = 1
        /\ pc[c] = "done" /\ op[c] = "get" /\ exc[c] = "none"
        /\ outcome[c] = "returned" /\ result[c] = None
        /\ Expired(QueryHash(query[c]))
        /\ \A r \in RowsOf(QueryHash(query[c])) :
              r.hit_count = 1 /\ r.last_accessed = 0

----------------------------------------------------------------------------
\* Properties of the bridge (SpecBridge)

\* C7: a bridged call made from a context in which no event loop is running is
\* driven directly on the calling thread and gets the operation's result or
\* failure, and no call is driven directly while a loop is running in the
\* calling context
C7_NoLoopMeansDirect ==
    \A c \in Callers :
        /\ (ctx[c] = "none" /\ via[c] # "none")
                => via[c] = "direct" /\ exc[c] \notin SchedulerErrors
        /\ via[c] = "direct" => ctx[c] = "none"

\* C8: a bridged call made while an event loop is running in the calling
\* context is handed to the worker thread, and the caller then gets the
\* operation's result, or the worker's failure raised again
C8_RunningLoopMeansWorker ==
    \A c \in Callers :
        /\ (ctx[c] # "none" /\ via[c] # "none") => via[c] = "worker"
        /\ (via[c] = "worker" /\ path[c] = "returned")
                => /\ pc[c] = "done"
                   /\ outcome[c] = (IF exc[c] # "none" /\ OnException(op[c]) = "raise"
                                    THEN "raised" ELSE "returned")

\* C9: whatever the interleaving of bridged calls from contexts with and
\* without a running loop, every call that comes back has run its operation
\* to the end and none fails with a scheduler-misuse error
C9_NoSchedulerMisuse ==
    \A c \in Callers :
        path[c] = "returned" => pc[c] = "done" /\ exc[c] \notin SchedulerErrors

\* C10: a cache operation that met a transient store failure (pool not
\* created, connection not acquired, statement timed out) ends with False
\* (cache_response) or None (get_cached_response) and raises nothing, in the
\* coroutine and in what the synchronous wrapper hands back
C10_StoreFailureIsAMiss ==
    \A c \in Callers :
        (pc[c] = "done" /\ exc[c] \in StoreErrors /\ op[c] \in {"get", "put"})
            => /\ outcome[c] = "returned"
               /\ result[c] = (IF op[c] = "get" THEN None ELSE "False")

\* The wrapper handed back False for a cache_response whose statement timed
\* out in the worker thread, and None for a get_cached_response that could not
\* get its pool on self.loop
C10_Witness ==
    \E c, o \in Callers :
        /\ path[c] = "returned" /\ via[c] = "worker" /\ op[c] = "put"
        /\ exc[c] = "timeout" /\ result[c] = "False"
        /\ path[o] = "returned" /\ via[o] = "direct" /\ op[o] = "get"
        /\ exc[o] = "pool" /\ result[o] = None

----------------------------------------------------------------------------
\* Properties of the chunk cache (SpecChunk)

\* The get_chunk call of thread t has returned and follows the call in prev
\* with nothing in between
After(t) == gpc[t] = "returned" /\ gop[t] = "get_chunk" /\ prev # NoCall

\* C4 (as stated): two consecutive get_chunk(c) calls return the same text and
\* the second is an exact hit that invokes the embedding model zero times
C4_SecondCallIsExactHit ==
    \A t \in Threads :
        (After(t) /\ prev.chunk = arg[t])
            => ret[t] = prev.ret /\ kind[t] = "exact" /\ encodes[t] = 0

\* C4 (amended): two consecutive get_chunk(c) calls return the same text; the
\* second is an exact hit with no embedding computed when the first was a miss
\* or an exact hit, and a semantic hit that computes one embedding when the
\* first was a semantic hit
C4_SecondCallSameText ==
    \A t \in Threads :
        (After(t) /\ prev.chunk = arg[t])
            => /\ ret[t] = prev.ret
               /\ prev.kind \in {"miss", "exact"} => kind[t] = "exact" /\ encodes[t] = 0
               /\ prev.kind = "semantic" => kind[t] = "semantic" /\ encodes[t] = 1

\* A chunk resolved as a miss and then again, found by its hash
C4_Witness ==
    \E t \in Threads :
        /\ After(t) /\ prev.chunk = arg[t]
        /\ prev.kind = "miss" /\ prev.encodes = 1
        /\ kind[t] = "exact" /\ encodes[t] = 0 /\ ret[t] = arg[t]

\* c1 = prev.chunk and c2 = arg[t] are different chunks at or above the threshold
SimilarPair(t) ==
    /\ After(t)
    /\ prev.chunk # arg[t]
    /\ Similar(Embedding(prev.chunk), Embedding(arg[t]))

\* C5 (as stated): for c1, c2 at or above the threshold, get_chunk(c2) after
\* get_chunk(c1) returns the text get_chunk(c1) returned
C5_SimilarReturnsFirstText ==
    \A t \in Threads : SimilarPair(t) => ret[t] = prev.ret

\* The positions of the semantic index that hold text
EntriesOf(text) == {i \in 1..Len(sem_cache) : sem_cache[i][2] = text}

\* C5 (amended): for c1, c2 at or above the threshold, get_chunk(c2) after
\* get_chunk(c1) returns c2's own stored text when c2's hash is in the exact
\* index; otherwise, when c1 is itself stored (get_chunk(c1) returned c1) and
\* no entry inserted before c1's is at or above the threshold for c2, it is a
\* semantic hit that returns c1's stored text
C5_SimilarReturnsStoredText ==
    \A t \in Threads :
        SimilarPair(t) =>
            /\ kind[t] = "exact" => ret[t] = arg[t]
            /\ (/\ kind[t] # "exact"
                /\ prev.ret = prev.chunk
                /\ \E i \in EntriesOf(prev.chunk) :
                      \A j \in 1..(i - 1) : ~Similar(sem_cache[j][1], Embedding(arg[t])))
                    => kind[t] = "semantic" /\ ret[t] = prev.ret

\* c1 was stored behind an older entry and c2, near c1 only, got c1's text
C5_Witness ==
    \E t \in Threads :
        /\ SimilarPair(t)
        /\ prev.kind = "miss"
        /\ kind[t] = "semantic" /\ ret[t] = prev.chunk
        /\ Len(sem_cache) >= 2
        /\ sem_cache[Len(sem_cache)][2] = prev.chunk

PairwiseBelowThreshold(S) ==
    \A a, b \in S : a # b => ~Similar(Embedding(a), Embedding(b))

Quiet == \A t \in Threads : gpc[t] \in {"idle", "returned"}

\* C6: chunks that are pairwise below the threshold, resolved in any order
\* from an empty cache, are each retained as one entry of the exact index and
\* one entry of the semantic index, and each call returns its own input
C6_DissimilarChunksAllRetained ==
    (Quiet /\ PairwiseBelowThreshold(resolved)) =>
        /\ \A c \in resolved :
              /\ ExactHit(exact_cache, Hash(c))
              /\ exact_cache[Hash(c)] = c
              /\ Cardinality(EntriesOf(c)) = 1
              /\ \A i \in EntriesOf(c) : sem_cache[i][1] = Embedding(c)
        /\ Cardinality(DOMAIN exact_cache) = Cardinality(resolved)
        /\ Len(sem_cache) = Cardinality(resolved)
        /\ \A t \in Threads :
              (gpc[t] = "returned" /\ gop[t] = "get_chunk") => ret[t] = arg[t]

\* Three chunks pairwise below the threshold have been resolved, the last as a
\* miss
C6_Witness ==
    /\ Cardinality(resolved) = 3
    /\ PairwiseBelowThreshold(resolved)
    /\ Len(sem_cache) = 3
    /\ \E t \in Threads : gpc[t] = "returned" /\ kind[t] = "miss" /\ ret[t] = arg[t]

----------------------------------------------------------------------------
\* Properties of the pool (SpecPool)

\* C11: over the life of the process the pool is created at most once and
\* torn down at most once: operations racing on first use do not create two
\* pools and no operation after close() creates a new one
C11_PoolCreatedOnceClosedOnce ==
    /\ created <= 1
    /\ Cardinality(torn) <= 1

----------------------------------------------------------------------------
\* Properties of the chunk cache under concurrency and crashes

\* C12: whatever the interleaving of concurrent get_chunk calls on one chunk,
\* at most one of them treats it as novel: no text is held twice by the
\* semantic index (SpecThreads)
C12_ChunkInsertedOnce ==
    \A c \in Chunks : Cardinality(EntriesOf(c)) <= 1

\* C13: an insertion that get_chunk has returned from is not lost by a crash:
\* after the reload the chunk is in both indexes (SpecCrash)
C13_AckedInsertionSurvivesCrash ==
    \A c \in acked : Hash(c) \in DOMAIN exact_cache /\ EntriesOf(c) # {}

----------------------------------------------------------------------------
\* Properties of the store under concurrency (SpecStore)

\* C14: between the SELECT that decides a hit and the UPDATE that counts it,
\* nothing takes effect on the key: no step of another operation changes the
\* row and the row does not expire
C14_NothingBetweenReadAndCount(c) ==
    (pc[c] = "update" /\ op[c] = "get" /\ pc'[c] = "update")
        => /\ RowsOf(QueryHash(query[c]))' = RowsOf(QueryHash(query[c]))
           /\ ~Expired(QueryHash(query[c]))'

C14_HitIsOneAtomicStep == [][\A c \in Callers : C14_NothingBetweenReadAndCount(c)]_vars

----------------------------------------------------------------------------
\* Properties of the pool under exhaustion (SpecPoolFair)

\* Every connection of self.pool is checked out
Exhausted == pool # NoPool /\ pool \notin torn /\ CheckedOut >= PoolMaxSize

\* Caller c's cache operation is about to acquire, or waits in acquire
AtAcquire(c) == pc[c] \in {"enter", "acquire"} /\ op[c] \in {"get", "put"}

\* The operation ended with the failure result of its method
FailureResult(c) ==
    /\ pc[c] = "done"
    /\ exc[c] # "none"
    /\ outcome[c] = "returned"
    /\ result[c] = (IF op[c] = "get" THEN None ELSE "False")

\* C15: a cache operation that finds every connection of the pool held by
\* other operations eventually returns a failure result to its caller
C15_ExhaustedPoolEndsInFailure ==
    \A c \in Callers : (AtAcquire(c) /\ Exhausted) ~> FailureResult(c)

----------------------------------------------------------------------------
\* Properties of the pool's connections (SpecPool)

\* Caller c's operation is inside async with self.get_connection()
Holding(c) == pc[c] \in {"stmt", "update", "release"}

\* C16: a connection an operation acquired goes back to its pool when the
\* operation ends, however it ends: only an operation inside its async with
\* block holds a connection, and no connection is left checked out for good
C16_EveryConnectionReleased ==
    /\ \A c \in Callers : conn[c] # NoPool => Holding(c)
    /\ leaked = 0

----------------------------------------------------------------------------
\* Properties of the cache key (SpecStore)

\* The rows whose query text is n up to letter case
RowsFor(n) ==
    {i \in 1..Len(response_cache) : Lower(response_cache[i].query_text) = n}

\* The payload of the live row for n, None if there is none
LiveData(n) ==
    LET live == {i \in RowsFor(n) : response_cache[i].expires_at > now}
    IN  IF live = {} THEN None ELSE response_cache[Min(live)].response_data

\* C17: the key is the case-normalized query text and nothing else. Whoever
\* the caller, a lookup fetches the payload of the live row stored for its
\* query up to letter case, a write lands in that row, and the table never
\* holds two rows for texts that differ only in case
C17_KeyStep(c) ==
    /\ (/\ pc[c] = "stmt" /\ op[c] = "get"
        /\ pc'[c] \in {"update", "release"} /\ exc'[c] = "none")
            => row'[c] = LiveData(Lower(query[c]))
    /\ (pc[c] = "stmt" /\ op[c] = "put" /\ pc'[c] = "release" /\ exc'[c] = "none")
            => \A i \in RowsFor(Lower(query[c]))' :
                  response_cache'[i].response_data = data[c]
    /\ \A q \in Queries : Cardinality(RowsFor(Lower(q))') <= 1

C17_KeyIsCaseFoldedText == [][\A c \in Callers : C17_KeyStep(c)]_vars

\* A lookup of "a" fetched the payload of the row that was stored for "A"
C17_Witness ==
    \E c \in Callers :
        /\ pc[c] = "update" /\ op[c] = "get" /\ query[c] = "a"
        /\ row[c] \in Payloads
        /\ Len(response_cache) = 1
        /\ response_cache[1].query_text = "A"

----------------------------------------------------------------------------
\* Properties of the answer path (SpecRag)

\* C18: generate_response_with_logging never ends in an error of the cache
\* layer: whenever the lookup fails or reports absent, and whether or not the
\* write fails, the call returns the generated answer with is_cached False
C18_CacheFailureNeverFailsAnswer ==
    \A c \in Callers : rag[c] # "raised"

----------------------------------------------------------------------------
\* Properties of the two lookups of get_chunk (SpecChunk)

\* C19: a get_chunk whose hash is in the exact index returns the stored text
\* at once: no embedding is computed, the semantic index is not scanned, and
\* neither index nor either file changes, up to and including the return
C19_ExactHitStep(t) ==
    /\ (/\ gpc[t] = "idle" /\ gpc'[t] # "idle" /\ gop'[t] = "get_chunk"
        /\ Hash(arg'[t]) \in DOMAIN exact_cache)
            => /\ gpc'[t] = "returned"
               /\ ret'[t] = exact_cache[Hash(arg'[t])]
               /\ encodes'[t] = 0 /\ emb'[t] = NoEmb
               /\ cacheVars' = cacheVars /\ partial' = partial
    /\ (gpc[t] = "returned" /\ kind[t] = "exact" /\ gpc'[t] = "idle")
            => cacheVars' = cacheVars /\ partial' = partial

C19_ExactHitTouchesNothing == [][\A t \in Threads : C19_ExactHitStep(t)]_vars

\* An exact hit on one of two stored chunks, the other looked up before it
C19_Witness ==
    \E t \in Threads :
        /\ gpc[t] = "returned" /\ kind[t] = "exact" /\ encodes[t] = 0
        /\ ret[t] = arg[t]
        /\ Len(sem_cache) = 2
        /\ prev # NoCall /\ prev.chunk # arg[t]
        /\ exact_file = exact_cache /\ sem_file = sem_cache

\* The positions of the semantic index at or above the threshold for chunk c
HitsFor(c) == {i \in 1..Len(sem_cache) : Similar(sem_cache[i][1], Embedding(c))}

\* Embedding e is nearer to v than f is (cosines compared on their squares,
\* both being positive)
Nearer(e, f, v) ==
    Dot(e, v) * Dot(e, v) * Dot(f, f) > Dot(f, v) * Dot(f, v) * Dot(e, e)

\* C20: a semantic hit returns the text of the earliest inserted entry among
\* those at or above the threshold, whichever of them is the most similar
C20_FirstInsertedWins ==
    \A t \in Threads :
        (gpc[t] = "returned" /\ kind[t] = "semantic")
            => /\ HitsFor(arg[t]) # {}
               /\ ret[t] = sem_cache[Min(HitsFor(arg[t]))][2]

\* Two entries are at or above the threshold, the later one nearer to the
\* chunk, and the call returned the text of the earlier one
C20_Witness ==
    \E t \in Threads :
        /\ gpc[t] = "returned" /\ kind[t] = "semantic"
        /\ HitsFor(arg[t]) = {1, 2}
        /\ Nearer(sem_cache[2][1], sem_cache[1][1], Embedding(arg[t]))
        /\ ret[t] = sem_cache[1][2]

----------------------------------------------------------------------------
\* Properties of the miss path of get_chunk (SpecChunk)

\* No entry of the semantic index is at or above the threshold for embedding v
NoneNear(v) == \A i \in 1..Len(sem_cache) : ~Similar(sem_cache[i][1], v)

\* The texts held by the exact index and by the semantic index
ExactTexts == {exact_cache[h] : h \in DOMAIN exact_cache}
SemTexts == {sem_cache[i][2] : i \in 1..Len(sem_cache)}

\* C21: on a miss (hash not in the exact index, no semantic entry at or above
\* the threshold) get_chunk adds the one entry hash -> chunk to the exact
\* index and appends the one pair (embedding, chunk) at the end of the
\* semantic index, every entry there was staying as it is, and returns its
\* input; it changes an index in no other case
C21_MissStep(t) ==
    /\ (gpc[t] = "scan" /\ gpc'[t] = "put_exact")
            <=> (gpc[t] = "scan" /\ Hash(arg[t]) \notin DOMAIN exact_cache
                 /\ NoneNear(Embedding(arg[t])))
    /\ (gpc[t] = "put_exact" /\ gpc'[t] # "put_exact")
            => /\ Hash(arg[t]) \notin DOMAIN exact_cache
               /\ DOMAIN exact_cache' = DOMAIN exact_cache \cup {Hash(arg[t])}
               /\ exact_cache'[Hash(arg[t])] = arg[t]
               /\ \A h \in DOMAIN exact_cache : exact_cache'[h] = exact_cache[h]
               /\ sem_cache' = sem_cache
    /\ (gpc[t] = "append_sem" /\ gpc'[t] # "append_sem")
            => /\ sem_cache' = Append(sem_cache, <<Embedding(arg[t]), arg[t]>>)
               /\ exact_cache' = exact_cache
    /\ (gop[t] = "get_chunk" /\ gpc[t] \notin {"put_exact", "append_sem"})
            => exact_cache' = exact_cache /\ sem_cache' = sem_cache
    /\ (gpc'[t] = "returned" /\ kind'[t] = "miss")
            => /\ ret'[t] = arg[t]
               /\ exact_cache'[Hash(arg[t])] = arg[t]
               /\ sem_cache'[Len(sem_cache')] = <<Embedding(arg[t]), arg[t]>>

C21_MissAddsOneEntryToEachIndex == [][\A t \in Threads : C21_MissStep(t)]_vars

\* A miss has returned its input, its entry the last of three in each index
C21_Witness ==
    \E t \in Threads :
        /\ gpc[t] = "returned" /\ kind[t] = "miss" /\ ret[t] = arg[t]
        /\ Len(sem_cache) = 3 /\ Cardinality(DOMAIN exact_cache) = 3
        /\ sem_cache[3][2] = arg[t]

----------------------------------------------------------------------------
\* Properties of the exact index (SpecChunk)

\* The step is the start of a clear_caches call
ClearStep == \E t \in Threads : gpc[t] = "idle" /\ gop'[t] = "clear_caches"

\* C22: the exact index holds one record per hash, the text of a record is
\* the text that hashes to its key and never changes once stored, and a record
\* goes away only in a clear_caches call
C22_RecordStep ==
    /\ \A h \in DOMAIN exact_cache :
          \/ h \in DOMAIN exact_cache' /\ exact_cache'[h] = exact_cache[h]
          \/ ClearStep
    /\ \A h \in DOMAIN exact_cache' : Hash(exact_cache'[h]) = h
    /\ ClearStep => exact_cache' = <<>>

C22_RecordsImmutableUntilClear == [][C22_RecordStep]_vars

\* With two records stored, the third call found the older one by its hash
C22_Witness ==
    \E t \in Threads :
        /\ ccalls = 3
        /\ gpc[t] = "returned" /\ kind[t] = "exact"
        /\ Cardinality(DOMAIN exact_cache) = 2
        /\ ret[t] = sem_cache[1][2]
        /\ exact_cache[Hash(ret[t])] = arg[t]

----------------------------------------------------------------------------
\* Properties of the chunk cache when a step fails (SpecFaults)

\* C23: when the embedding model fails in get_chunk the exception leaves the
\* method at once, the model having been called once, and no step of the call
\* has changed an index or a file
C23_EncodeFailureStep(t) ==
    /\ (gpc[t] = "encode" /\ kind'[t] = "encode_failed")
            => gpc'[t] = "raised" /\ encodes'[t] = 1
    /\ (gop'[t] = "get_chunk" /\ gpc'[t] \in {"encode", "raised"}
        /\ kind'[t] # "save_failed")
            => cacheVars' = cacheVars /\ partial' = partial
    /\ (gpc[t] = "raised" /\ kind[t] = "encode_failed")
            => cacheVars' = cacheVars /\ partial' = partial

C23_EncodeFailurePropagatesCleanly == [][\A t \in Threads : C23_EncodeFailureStep(t)]_vars

\* The model failed on a chunk while another chunk is stored and persisted
C23_Witness ==
    \E t \in Threads :
        /\ gpc[t] = "raised" /\ kind[t] = "encode_failed" /\ encodes[t] = 1
        /\ Len(sem_cache) = 1 /\ sem_cache[1][2] # arg[t]
        /\ exact_file = exact_cache /\ sem_file = sem_cache

\* C24: when a save fails during a miss the exception reaches the caller,
\* both indexes hold the new entry, and get_chunk called again on that chunk
\* finds it by its hash and returns it: the chunk stays one record of the
\* exact index and one entry of the semantic index
C24_SaveFailureKeepsEntryRetryIdempotent ==
    /\ \A t \in Threads :
          /\ kind[t] = "save_failed" => gpc[t] = "raised"
          /\ (gpc[t] = "raised" /\ kind[t] = "save_failed" /\ gop[t] = "get_chunk")
                => arg[t] \in failed
          /\ (gop[t] = "get_chunk" /\ arg[t] \in failed /\ kind[t] # "save_failed")
                => /\ gpc[t] = "returned" /\ kind[t] = "exact"
                   /\ ret[t] = arg[t] /\ encodes[t] = 0
    /\ \A c \in failed :
          /\ Hash(c) \in DOMAIN exact_cache /\ exact_cache[Hash(c)] = c
          /\ Cardinality(EntriesOf(c)) = 1

\* The call repeated after a failed save has returned the chunk, which the
\* files still do not hold
C24_Witness ==
    \E t \in Threads :
        /\ gpc[t] = "returned" /\ kind[t] = "exact" /\ arg[t] \in failed
        /\ ret[t] = arg[t]
        /\ Len(sem_cache) = 1 /\ DOMAIN exact_cache = {Hash(arg[t])}
        /\ exact_file = <<>> /\ sem_file = <<>>

\* C25: write-through. Whenever a get_chunk or clear_caches call has returned
\* normally, each file is complete and holds what its index holds, so that a
\* ContextCache loaded from the files has the same indexes; also after an
\* earlier save has failed
C25_FilesEqualIndexesAfterReturn ==
    \A t \in Threads :
        gpc[t] = "returned"
            => /\ partial = {}
               /\ exact_file = exact_cache
               /\ sem_file = sem_cache

----------------------------------------------------------------------------
\* Properties of the chunk cache after a crash inside an insertion (SpecCrash)

\* C26: nothing is lost by a crash between the two saves of an insertion:
\* once the cache is loaded again, a get_chunk that has returned leaves the
\* text it resolved to in the exact index and in the semantic index (the
\* chunk the crash left in one file only is registered again)
C26_ResolvedChunkInBothIndexes ==
    \A t \in Threads :
        (gpc[t] = "returned" /\ gop[t] = "get_chunk")
            => ret[t] \in ExactTexts /\ ret[t] \in SemTexts

----------------------------------------------------------------------------
\* Properties of the rows' bookkeeping columns (SpecStore)

\* C27: the statement of a successful cache_response leaves its row with
\* expires_at = time of the write + TTL, whether it inserted the row or
\* updated it
C27_WriteStep(c) ==
    (pc[c] = "stmt" /\ op[c] = "put" /\ pc'[c] = "release" /\ exc'[c] = "none")
        => /\ RowsOf(QueryHash(query[c]))' # {}
           /\ \A r \in RowsOf(QueryHash(query[c]))' : r.expires_at = now + TTL

C27_WriteRederivesExpiry == [][\A c \in Callers : C27_WriteStep(c)]_vars

\* Caller c's step executes a statement that counts on key h: the upsert of a
\* cache_response, or the UPDATE of a get_cached_response that found the row
Counts(c, h) ==
    /\ QueryHash(query[c]) = h
    /\ exc'[c] = "none"
    /\ pc'[c] = "release"
    /\ \/ pc[c] = "stmt" /\ op[c] = "put"
       \/ pc[c] = "update" /\ op[c] = "get"

\* C28: the first cache_response for a key creates its row with hit_count 1;
\* from then on hit_count never decreases and grows by one with every
\* cache_response on the key and with every get_cached_response that returns
\* a payload, and with nothing else: a step changes it only by executing such
\* a statement, and the get whose UPDATE has counted returns its payload
C28_CountStep ==
    /\ \A h \in Hashes :
          LET before == HitCount(response_cache, h)
              after == HitCount(response_cache', h)
          IN  /\ after \in {before, before + 1}
              /\ after = before + 1 <=> \E c \in Callers : Counts(c, h)
              /\ (before = 0 /\ after = 1)
                    => \E c \in Callers : Counts(c, h) /\ op[c] = "put"
    /\ \A c \in Callers :
          (pc[c] = "release" /\ op[c] = "get" /\ result[c] # None /\ pc'[c] = "done")
                => result'[c] = result[c] /\ outcome'[c] = "returned"

C28_HitCountCountsHitsAndWrites == [][C28_CountStep]_vars

----------------------------------------------------------------------------
\* Properties of the two indexes taken together (SpecChunk)

\* C29: between calls, whatever get_chunk and clear_caches calls were made
\* one after the other from an empty cache, the two indexes describe the same
\* chunks: they have as many entries as each other, and a text is a value of
\* the exact index exactly when it is the text of a semantic entry
C29_IndexesDescribeSameChunks ==
    Quiet =>
        /\ Len(sem_cache) = Cardinality(DOMAIN exact_cache)
        /\ ExactTexts = SemTexts

\* A miss has returned after a clear_caches that emptied a filled cache
C29_Witness ==
    /\ ccalls = 3
    /\ Quiet
    /\ Len(sem_cache) = 1 /\ Cardinality(resolved) = 1
    /\ exact_file = exact_cache
    /\ \E t \in Threads : gpc[t] = "returned" /\ kind[t] = "miss"

----------------------------------------------------------------------------
\* Properties of the pool's event loop (SpecBridge)

\* C30: an operation that takes a connection of self.pool runs on the event
\* loop on which that pool was created, and the loop is open: whenever a
\* coroutine calls self.pool.acquire(), on the direct path or in the worker
\* thread, the loop driving it is the pool's loop
C30_AcquireStep(c) ==
    (pc[c] \in {"enter", "acquire"} /\ pc'[c] \in {"stmt", "done"} /\ pool # NoPool)
        => pool_loop = LoopOf(c)

C30_OperationsRunOnThePoolsLoop == [][\A c \in Callers : C30_AcquireStep(c)]_vars

====
